---- MODULE Spec2Model ----
(***************************************************************************)
(* MASKOR/spot_ros2: the robot-state client of spot_driver_cpp.            *)
(*                                                                         *)
(* DefaultRobotStateClient::getRobotState fetches the robot's raw state    *)
(* over an asynchronous request, reads the clock skew from the time-sync   *)
(* API, and builds a RobotState from 13 translators.  The model follows    *)
(* one call statement by statement, for two callers that may run at the    *)
(* same time, beside the remote robot that answers requests and the        *)
(* background time-sync thread that rewrites the skew estimate.  Every     *)
(* call is made with the node's preferred_odom_frame parameter.            *)
(***************************************************************************)
EXTENDS Integers, Sequences, FiniteSets, TLC

(***************************************************************************)
(* Bounds of the model.                                                    *)
(***************************************************************************)
\* Clock skews the time-sync thread may estimate: 0..MaxSkew.
MaxSkew == 1
\* Robot-clock timestamps a raw state may carry: 0..MaxStamp.
MaxStamp == 1

\* The threads that may be inside getRobotState at the same time.
Callers == {"timerA", "timerB"}
\* Robot names the client may be constructed with.
RobotNames == {"", "spot1"}
\* Values the node's preferred_odom_frame parameter may be set to.
OdomFrames == {"odom", "vision", "spot1/odom", "spot1/vision", "map"}

(***************************************************************************)
(* Optional values: absent is <<>>, present is <<v>>.                      *)
(***************************************************************************)
None == <<>>
Some(v) == <<v>>

(***************************************************************************)
(* The remote's answer: ::bosdyn::client::RobotStateResultType, a status   *)
(* and a response.  A status converts to true when its code is 0.          *)
(***************************************************************************)
StatusOK == [code |-> 0, message |-> ""]
StatusFailed == [code |-> 2, message |-> "deadline exceeded"]
Statuses == {StatusOK, StatusFailed}

StatusIsOk(status) == status.code = 0

\* Status::DebugString(): the code and the remote's message.
DebugString(status) ==
    (IF status.code = 0 THEN "0" ELSE "2") \o ": " \o status.message

\* bosdyn::api::RobotState, reduced to the robot-clock timestamp it carries.
RawStates == [stamp : 0..MaxStamp]
\* What response.robot_state() yields when the field is not set.
DefaultRawState == [stamp |-> 0]

\* Every result the remote can resolve the future with.
Results ==
    {[status |-> s, has_robot_state |-> TRUE, robot_state |-> r] :
        s \in Statuses, r \in RawStates}
    \cup
    {[status |-> s, has_robot_state |-> FALSE, robot_state |-> DefaultRawState] :
        s \in Statuses}

(***************************************************************************)
(* tl::expected<T, std::string>.                                           *)
(***************************************************************************)
Expected(v) == [has_value |-> TRUE, value |-> Some(v), error |-> None]
MakeUnexpected(e) == [has_value |-> FALSE, value |-> None, error |-> Some(e)]

(***************************************************************************)
(* State.                                                                  *)
(***************************************************************************)
VARIABLES
    robot_name,              \* the constructor's robot_name argument
    frame_prefix_,           \* DefaultRobotStateClient::frame_prefix_
    estimate,                \* the time-sync thread's latest skew estimate
    preferred_odom_param,    \* the node's preferred_odom_frame parameter
    pc,                      \* where each caller stands in getRobotState
    preferred_odom_frame,    \* the call's argument
    future,                  \* get_robot_state_result_future
    get_robot_state_result,  \* the local of line 20
    clock_skew_result,       \* the local of line 25
    robot_state,             \* the local of line 30
    parts,                   \* the initializers of `out` evaluated so far
    ret,                     \* the value the call returned
    sent,                    \* GetRobotStateAsync requests issued by the call
    skewRead,                \* what each getClockSkew query of the call returned
    answer,                  \* what the remote answered to the call's request
    ran,                     \* translators the call has run
    overlapped,              \* the callers' present calls ran at the same time
    abandoned                \* a higher layer gave up on the fetch in flight

\* The state of the other programs of the repository this module covers.
VARIABLES
    perm_input,              \* the four inputs of one run of the 13 translators
    perm_raw,                \* the raw state the translators of that run read
    perm_out,                \* the members of `out` that run has produced
    conv_in,                 \* the argument of one conversion call
    conv_out,                \* what the call left in its output argument
    joint_in,                \* the arguments of one order_joint_states call
    joint_out,               \* its return value and output_joint_states
    wiggle_state_,           \* WiggleArm::wiggle_state_
    initialized_,            \* WiggleArm::initialized_
    count_,                  \* WiggleArm::count_
    points_per_motion_,      \* WiggleArm::points_per_motion_
    nominal_joint_angles_,   \* WiggleArm::nominal_joint_angles_
    joints_to_wiggle_,       \* WiggleArm::joints_to_wiggle_
    wiggle_up_offsets_,      \* WiggleArm::wiggle_up_offsets_
    wiggle_down_offsets_,    \* WiggleArm::wiggle_down_offsets_
    command_,                \* WiggleArm::command_
    wiggle_event             \* the callback that ran last and what it published

getRobotStateVars ==
    <<robot_name, frame_prefix_, preferred_odom_param, estimate, pc,
      preferred_odom_frame, future, get_robot_state_result,
      clock_skew_result, robot_state, parts, ret, sent, skewRead, answer,
      ran, overlapped, abandoned>>
permVars == <<perm_input, perm_raw, perm_out>>
convVars == <<conv_in, conv_out>>
jointVars == <<joint_in, joint_out>>
wiggleVars == <<wiggle_state_, initialized_, count_, points_per_motion_,
                nominal_joint_angles_, joints_to_wiggle_, wiggle_up_offsets_,
                wiggle_down_offsets_, command_, wiggle_event>>

vars == <<getRobotStateVars, permVars, convVars, jointVars, wiggleVars>>

\* What a step of getRobotState leaves alone: the other programs.
otherVars == <<permVars, convVars, jointVars, wiggleVars>>

clientVars == <<robot_name, frame_prefix_, preferred_odom_param>>
localVars == <<get_robot_state_result, clock_skew_result, robot_state, parts>>

(***************************************************************************)
(* The constructor: frame_prefix_ from robot_name.                         *)
(***************************************************************************)
\* The initializer of frame_prefix_ without its test for an empty name.
FramePrefixAlwaysSlash(name) == name \o "/"

FramePrefix(name) == IF name = "" THEN "" ELSE name \o "/"

(***************************************************************************)
(* The future of one request.                                              *)
(***************************************************************************)
NoFuture == [st |-> "none", val |-> None]
PendingFuture == [st |-> "pending", val |-> None]
ReadyFuture(r) == [st |-> "ready", val |-> Some(r)]

\* A program that is not running: its variables rest at fixed values.
PermIdle == perm_input = None /\ perm_raw = None /\ perm_out = <<>>
ConvIdle == conv_in = None /\ conv_out = None
JointIdle == joint_in = None /\ joint_out = None
WiggleIdle ==
    /\ wiggle_state_ = "WIGGLE_DOWN"
    /\ initialized_ = FALSE
    /\ count_ = 0
    /\ points_per_motion_ = 0
    /\ nominal_joint_angles_ = <<>>
    /\ joints_to_wiggle_ = <<>>
    /\ wiggle_up_offsets_ = <<>>
    /\ wiggle_down_offsets_ = <<>>
    /\ command_ = <<>>
    /\ wiggle_event = None

Init ==
    /\ robot_name \in RobotNames
    /\ frame_prefix_ = FramePrefix(robot_name)
    /\ preferred_odom_param \in OdomFrames
    /\ estimate \in {None} \cup {Some(k) : k \in 0..MaxSkew}
    /\ pc = [c \in Callers |-> "idle"]
    /\ preferred_odom_frame = [c \in Callers |-> None]
    /\ future = [c \in Callers |-> NoFuture]
    /\ get_robot_state_result = [c \in Callers |-> None]
    /\ clock_skew_result = [c \in Callers |-> None]
    /\ robot_state = [c \in Callers |-> None]
    /\ parts = [c \in Callers |-> <<>>]
    /\ ret = [c \in Callers |-> None]
    /\ sent = [c \in Callers |-> 0]
    /\ skewRead = [c \in Callers |-> <<>>]
    /\ answer = [c \in Callers |-> None]
    /\ ran = [c \in Callers |-> 0]
    /\ overlapped = FALSE
    /\ abandoned = [c \in Callers |-> FALSE]
    /\ PermIdle /\ ConvIdle /\ JointIdle /\ WiggleIdle

\* getRobotState at rest: no caller, no robot name, no skew estimate.
GetRobotStateIdle ==
    /\ robot_name = ""
    /\ frame_prefix_ = FramePrefix(robot_name)
    /\ preferred_odom_param = "odom"
    /\ estimate = None
    /\ pc = [c \in Callers |-> "idle"]
    /\ preferred_odom_frame = [c \in Callers |-> None]
    /\ future = [c \in Callers |-> NoFuture]
    /\ get_robot_state_result = [c \in Callers |-> None]
    /\ clock_skew_result = [c \in Callers |-> None]
    /\ robot_state = [c \in Callers |-> None]
    /\ parts = [c \in Callers |-> <<>>]
    /\ ret = [c \in Callers |-> None]
    /\ sent = [c \in Callers |-> 0]
    /\ skewRead = [c \in Callers |-> <<>>]
    /\ answer = [c \in Callers |-> None]
    /\ ran = [c \in Callers |-> 0]
    /\ overlapped = FALSE
    /\ abandoned = [c \in Callers |-> FALSE]


(***************************************************************************)
(* The translators of conversions/robot_state, in the order the            *)
(* initializer list of `out` names them, and what each is called with.     *)
(***************************************************************************)
TranslatorNames ==
    << "battery_states", "wifi_state", "foot_state", "estop_states",
       "joint_states", "tf", "odom_twist", "odom", "power_state",
       "system_fault_state", "manipulator_state", "end_effector_force",
       "behavior_fault_state" >>

NumTranslators == Len(TranslatorNames)

\* The skew-taking initializers with GetOdomTwist's skew left out.
TakesSkewButOdomTwist == {1, 4, 5, 6, 8, 9, 10, 12, 13}

\* The initializers that pass clock_skew_result.value().
TakesSkew == {1, 4, 5, 6, 7, 8, 9, 10, 12, 13}
\* The initializers that pass frame_prefix_.
TakesPrefix == {5, 6, 8, 12}
\* GetTf is passed preferred_odom_frame itself, GetOdom the vision flag.
TfIndex == 6
OdomIndex == 8

\* The comparison of line 40 with the frame prefix left out.
IsUsingVisionUnprefixed(prefix, preferred) == preferred = "vision"

\* The fourth argument of GetOdom.
IsUsingVision(prefix, preferred) == preferred = prefix \o "vision"

\* The skew asked of the time-sync API again at each use.
ClockSkewRequeried(c) == IF estimate = None THEN 0 ELSE estimate[1]

\* clock_skew_result.value(), read from the call's own local.
ClockSkewValue(c) == clock_skew_result[c][1].value[1]

\* The copy of line 30 kept in storage all callers share (a member or a
\* static) in place of a local of the call.
TranslatedStateShared(c) ==
    robot_state[CHOOSE d \in Callers : robot_state[d] # None][1]

\* The raw state the translators read: the copy of line 30.
TranslatedState(c) == robot_state[c][1]

\* The arguments of the k-th initializer of `out`, for a caller whose raw
\* state, skew, frame prefix and preferred_odom_frame are the four given.
TranslatorArgs(k, rs, skew, prefix, preferred) ==
    [ robot_state |-> rs,
      clock_skew |-> IF k \in TakesSkew THEN Some(skew) ELSE None,
      frame_prefix |-> IF k \in TakesPrefix THEN Some(prefix) ELSE None,
      preferred_odom_frame |-> IF k = TfIndex THEN Some(preferred) ELSE None,
      is_using_vision |->
          IF k = OdomIndex THEN Some(IsUsingVision(prefix, preferred)) ELSE None ]

\* A robot-clock timestamp moved to the local clock.
ApplyClockSkew(stamp, skew) == stamp + skew

\* The frame a frame-emitting translator names, before the prefix.
BaseFrame(k) ==
    CASE k = 5 -> "joint"
      [] k = 6 -> "body"
      [] k = 8 -> "body"
      [] k = 12 -> "hand"
      [] OTHER -> ""

\* One translator: a pure function of its arguments.  The sub-state keeps
\* the arguments it was made from beside what it emits.
Translator(k, args) ==
    [ name |-> TranslatorNames[k],
      args |-> args,
      data |-> args.robot_state,
      stamp |-> IF args.clock_skew = None THEN None
                ELSE Some(ApplyClockSkew(args.robot_state.stamp, args.clock_skew[1])),
      frame |-> IF args.frame_prefix = None THEN None
                ELSE Some(args.frame_prefix[1] \o BaseFrame(k)),
      odom_frame |->
          IF args.is_using_vision # None
          THEN Some(args.frame_prefix[1]
                    \o (IF args.is_using_vision[1] THEN "vision" ELSE "odom"))
          ELSE args.preferred_odom_frame ]

\* The aggregate `out`: one member per initializer.
RobotState(ps) ==
    [nm \in {TranslatorNames[k] : k \in 1..Len(ps)} |->
        LET k == CHOOSE i \in 1..Len(ps) : TranslatorNames[i] = nm IN ps[k]]

(***************************************************************************)
(* TimeSyncApi::getClockSkew: the latest estimate, or an error when there  *)
(* is none.                                                                *)
(***************************************************************************)
GetClockSkew ==
    IF estimate = None THEN MakeUnexpected("time sync unavailable")
    ELSE Expected(estimate[1])

(***************************************************************************)
(* getRobotState, statement by statement.                                  *)
(***************************************************************************)
\* Line 21 without its second test: a response with no payload passes.
FetchFailedStatusOnly(r) == ~StatusIsOk(r.status)

\* The guard of line 21.
FetchFailed(r) == ~StatusIsOk(r.status) \/ ~r.has_robot_state

\* The guard of line 26.
SkewFailed(s) == ~s.has_value

\* A return statement: the value goes to the caller, the locals end.
ReturnValue(c, v) ==
    /\ ret' = [ret EXCEPT ![c] = Some(v)]
    /\ pc' = [pc EXCEPT ![c] = "returned"]
    /\ future' = [future EXCEPT ![c] = NoFuture]
    /\ get_robot_state_result' = [get_robot_state_result EXCEPT ![c] = None]
    /\ clock_skew_result' = [clock_skew_result EXCEPT ![c] = None]
    /\ robot_state' = [robot_state EXCEPT ![c] = None]
    /\ parts' = [parts EXCEPT ![c] = <<>>]

\* Lines 16-18: the caller enters with the node's preferred_odom_frame
\* parameter as argument and issues the asynchronous request.
Call(c) ==
    /\ pc[c] = "idle"
    /\ preferred_odom_frame' =
           [preferred_odom_frame EXCEPT ![c] = Some(preferred_odom_param)]
    /\ future' = [future EXCEPT ![c] = PendingFuture]
    /\ sent' = [sent EXCEPT ![c] = @ + 1]
    /\ pc' = [pc EXCEPT ![c] = "await"]
    /\ overlapped' =
           (overlapped \/ \E d \in Callers \ {c} : pc[d] \notin {"idle", "returned"})
    /\ UNCHANGED <<otherVars, clientVars, estimate, localVars, ret, skewRead, answer, ran,
                   abandoned>>

\* The robot (through the SDK) resolves the future of a pending request.
RemoteRespond(c, r) ==
    /\ future[c].st = "pending"
    /\ future' = [future EXCEPT ![c] = ReadyFuture(r)]
    /\ answer' = [answer EXCEPT ![c] = Some(r)]
    /\ UNCHANGED <<otherVars, clientVars, estimate, pc, preferred_odom_frame, localVars, ret,
                   sent, skewRead, ran, overlapped, abandoned>>

\* Lines 21-23 with the status text left out of the message.
FetchFailureNoDetail(c, r) ==
    /\ ReturnValue(c, MakeUnexpected("Failed to get robot state: "))
    /\ UNCHANGED <<otherVars, clientVars, estimate, preferred_odom_frame, sent, skewRead,
                   answer, ran, overlapped>>

\* Lines 21-23 with the request issued again in place of the return.
FetchFailureRetry(c, r) ==
    /\ future' = [future EXCEPT ![c] = PendingFuture]
    /\ sent' = [sent EXCEPT ![c] = @ + 1]
    /\ UNCHANGED <<otherVars, clientVars, estimate, pc, preferred_odom_frame, localVars, ret,
                   skewRead, answer, ran, overlapped>>

\* Lines 21-23 when the guard holds.
FetchFailure(c, r) ==
    /\ ReturnValue(c, MakeUnexpected("Failed to get robot state: "
                                     \o DebugString(r.status)))
    /\ UNCHANGED <<otherVars, clientVars, estimate, preferred_odom_frame, sent, skewRead,
                   answer, ran, overlapped>>

\* Lines 20-23: future.get() returns once the future is ready.
FutureGet(c) ==
    /\ pc[c] = "await"
    /\ future[c].st = "ready"
    /\ abandoned' = [abandoned EXCEPT ![c] = FALSE]
    /\ LET r == future[c].val[1] IN
       IF FetchFailed(r)
       THEN FetchFailure(c, r)
       ELSE /\ get_robot_state_result' = [get_robot_state_result EXCEPT ![c] = Some(r)]
            /\ pc' = [pc EXCEPT ![c] = "skew"]
            /\ UNCHANGED <<otherVars, clientVars, estimate, preferred_odom_frame, future,
                           clock_skew_result, robot_state, parts, ret, sent,
                           skewRead, answer, ran, overlapped>>

\* Lines 25-30 with a failed query replaced by a zero skew (value_or(0))
\* in place of the early return.
GetClockSkewStepLenient(c) ==
    /\ pc[c] = "skew"
    /\ LET s == GetClockSkew IN
       /\ skewRead' = [skewRead EXCEPT ![c] = Append(@, s)]
       /\ clock_skew_result' =
              [clock_skew_result EXCEPT ![c] =
                  Some(IF SkewFailed(s) THEN Expected(0) ELSE s)]
       /\ robot_state' =
              [robot_state EXCEPT ![c] =
                  Some(get_robot_state_result[c][1].robot_state)]
       /\ pc' = [pc EXCEPT ![c] = "translate"]
       /\ UNCHANGED <<future, get_robot_state_result, parts, ret>>
    /\ UNCHANGED <<otherVars, clientVars, estimate, preferred_odom_frame, sent, answer, ran,
                   overlapped, abandoned>>

\* Lines 25-30: one getClockSkew query, then the copy of the raw state.
GetClockSkewStep(c) ==
    /\ pc[c] = "skew"
    /\ LET s == GetClockSkew IN
       /\ skewRead' = [skewRead EXCEPT ![c] = Append(@, s)]
       /\ IF SkewFailed(s)
          THEN ReturnValue(c, MakeUnexpected("Failed to get latest clock skew: "
                                             \o s.error[1]))
          ELSE /\ clock_skew_result' = [clock_skew_result EXCEPT ![c] = Some(s)]
               /\ robot_state' =
                      [robot_state EXCEPT ![c] =
                          Some(get_robot_state_result[c][1].robot_state)]
               /\ pc' = [pc EXCEPT ![c] = "translate"]
               /\ UNCHANGED <<future, get_robot_state_result, parts, ret>>
    /\ UNCHANGED <<otherVars, clientVars, estimate, preferred_odom_frame, sent, answer, ran,
                   overlapped, abandoned>>

\* Lines 32-45: the next initializer of `out` is evaluated.
TranslateStep(c) ==
    /\ pc[c] = "translate"
    /\ Len(parts[c]) < NumTranslators
    /\ LET k == Len(parts[c]) + 1 IN
       parts' = [parts EXCEPT ![c] =
                    Append(@, Translator(k, TranslatorArgs(k, TranslatedState(c),
                                                           ClockSkewValue(c),
                                                           frame_prefix_,
                                                           preferred_odom_frame[c][1])))]
    /\ ran' = [ran EXCEPT ![c] = @ + 1]
    /\ UNCHANGED <<otherVars, clientVars, estimate, pc, preferred_odom_frame, future,
                   get_robot_state_result, clock_skew_result, robot_state, ret,
                   sent, skewRead, answer, overlapped, abandoned>>

\* Line 47: return out.
ReturnOut(c) ==
    /\ pc[c] = "translate"
    /\ Len(parts[c]) = NumTranslators
    /\ ReturnValue(c, Expected(RobotState(parts[c])))
    /\ UNCHANGED <<otherVars, clientVars, estimate, preferred_odom_frame, sent, skewRead,
                   answer, ran, overlapped, abandoned>>

\* The caller takes the returned value; the thread may call again.
CallerTakes(c) ==
    /\ pc[c] = "returned"
    /\ pc' = [pc EXCEPT ![c] = "idle"]
    /\ ret' = [ret EXCEPT ![c] = None]
    /\ preferred_odom_frame' = [preferred_odom_frame EXCEPT ![c] = None]
    /\ sent' = [sent EXCEPT ![c] = 0]
    /\ skewRead' = [skewRead EXCEPT ![c] = <<>>]
    /\ answer' = [answer EXCEPT ![c] = None]
    /\ ran' = [ran EXCEPT ![c] = 0]
    /\ overlapped' = FALSE
    /\ UNCHANGED <<otherVars, clientVars, estimate, future, localVars, abandoned>>

\* The background time-sync thread stores a new estimate, or loses it.
TimeSyncUpdate(v) ==
    /\ v # estimate
    /\ estimate' = v
    /\ UNCHANGED <<otherVars, clientVars, pc, preferred_odom_frame, future, localVars, ret,
                   sent, skewRead, answer, ran, overlapped, abandoned>>

\* A higher layer of the caller gives up on a request that is still pending.
HigherLayerTimeout(c) ==
    /\ pc[c] = "await"
    /\ future[c].st = "pending"
    /\ ~abandoned[c]
    /\ abandoned' = [abandoned EXCEPT ![c] = TRUE]
    /\ UNCHANGED <<otherVars, clientVars, estimate, pc, preferred_odom_frame, future,
                   localVars, ret, sent, skewRead, answer, ran, overlapped>>

Next ==
    \/ \E c \in Callers : Call(c)
    \/ \E c \in Callers, r \in Results : RemoteRespond(c, r)
    \/ \E c \in Callers : FutureGet(c)
    \/ \E c \in Callers : GetClockSkewStep(c)
    \/ \E c \in Callers : TranslateStep(c)
    \/ \E c \in Callers : ReturnOut(c)
    \/ \E c \in Callers : CallerTakes(c)
    \/ \E v \in {None} \cup {Some(k) : k \in 0..MaxSkew} : TimeSyncUpdate(v)
    \/ \E c \in Callers : HigherLayerTimeout(c)

Spec == Init /\ [][Next]_vars

\* A thread inside getRobotState that can run its next statement does run
\* it.  Nothing obliges the remote to answer, a timer to call again, the
\* time-sync thread to write or a higher layer to time out.
CallStep(c) ==
    FutureGet(c) \/ GetClockSkewStep(c) \/ TranslateStep(c) \/ ReturnOut(c)

FairSpec == Spec /\ \A c \in Callers : WF_vars(CallStep(c))


(***************************************************************************)
(* The claims.                                                             *)
(***************************************************************************)
\* The 13 members of RobotState, as the specification lists them.
SubStateNames ==
    { "battery_states", "wifi_state", "foot_state", "estop_states",
      "joint_states", "tf", "odom_twist", "odom", "power_state",
      "system_fault_state", "manipulator_state", "end_effector_force",
      "behavior_fault_state" }

\* The remote answered the call with an OK status and a robot_state payload.
AnswerOk(c) ==
    /\ answer[c] # None
    /\ answer[c][1].status.code = 0
    /\ answer[c][1].has_robot_state

\* The call's getClockSkew query failed.
SkewQueryFailed(c) == \E i \in 1..Len(skewRead[c]) : ~skewRead[c][i].has_value

Returned(c) == pc[c] = "returned"
ReturnedError(c) == Returned(c) /\ ~ret[c][1].has_value
ReturnedState(c) == Returned(c) /\ ret[c][1].has_value

\* C1 (all-or-nothing): a call hands its caller nothing before it returns;
\* what it returns is either an error and no RobotState, or a RobotState whose
\* 13 sub-states were all produced from the raw state the remote answered
\* this call with; and after a failed fetch or a failed getClockSkew the
\* returned value holds no RobotState.
C1_AllOrNothing ==
    \A c \in Callers :
        /\ ~Returned(c) => ret[c] = None
        /\ Returned(c) =>
             LET r == ret[c][1] IN
             /\ \/ ~r.has_value /\ r.value = None /\ r.error # None
                \/ /\ r.has_value /\ r.error = None
                   /\ DOMAIN r.value[1] = SubStateNames
                   /\ Cardinality(DOMAIN r.value[1]) = 13
                   /\ \A nm \in SubStateNames :
                        /\ r.value[1][nm].name = nm
                        /\ r.value[1][nm].data = answer[c][1].robot_state
             /\ (~AnswerOk(c) \/ SkewQueryFailed(c)) => r.value = None

\* A call returned a RobotState, and another returned an error after a
\* failed getClockSkew.
C1_Witness ==
    \E c, d \in Callers :
        /\ ReturnedState(c) /\ AnswerOk(c)
        /\ ReturnedError(d) /\ SkewQueryFailed(d)

\* C2 (fetch failure path): a call whose remote result has a non-OK status,
\* or an OK status without the robot_state payload, returns the error
\* "Failed to get robot state: " followed by the status's text, without one
\* getClockSkew query and without one translator having run; and no call
\* goes on to the skew query or to translation with such a result.
C2_FetchFailurePath ==
    \A c \in Callers :
        (answer[c] # None /\ ~AnswerOk(c)) =>
            /\ skewRead[c] = <<>>
            /\ ran[c] = 0
            /\ pc[c] \in {"await", "returned"}
            /\ Returned(c) =>
                 /\ ~ret[c][1].has_value
                 /\ ret[c][1].error =
                      Some("Failed to get robot state: "
                           \o DebugString(answer[c][1].status))

\* Both kinds of failed fetch returned: a non-OK status, and an OK status
\* whose response lacks the payload.
C2_Witness ==
    \E c, d \in Callers :
        /\ ReturnedError(c) /\ answer[c][1].status.code # 0
        /\ ReturnedError(d) /\ answer[d][1].status.code = 0
        /\ ~answer[d][1].has_robot_state


\* C3 (skew failure path and step ordering): getClockSkew is queried only
\* after the fetch has completed with a usable result, and a translator runs
\* only after the one getClockSkew query has succeeded; a call whose
\* getClockSkew query failed returns "Failed to get latest clock skew: "
\* followed by the time-sync error, has run no translator, and keeps nothing
\* of the fetched raw state.
C3_SkewFailureAndOrder ==
    \A c \in Callers :
        /\ skewRead[c] # <<>> => AnswerOk(c)
        /\ pc[c] = "skew" => (AnswerOk(c) /\ skewRead[c] = <<>> /\ ran[c] = 0)
        /\ (ran[c] > 0 \/ pc[c] = "translate") =>
             (Len(skewRead[c]) = 1 /\ skewRead[c][1].has_value)
        /\ SkewQueryFailed(c) =>
             /\ Returned(c)
             /\ ran[c] = 0
             /\ ~ret[c][1].has_value
             /\ ret[c][1].error =
                  Some("Failed to get latest clock skew: " \o skewRead[c][1].error[1])
             /\ get_robot_state_result[c] = None
             /\ robot_state[c] = None
             /\ parts[c] = <<>>

\* A call fetched a raw state, failed its getClockSkew query and returned.
C3_Witness ==
    \E c \in Callers :
        /\ AnswerOk(c) /\ answer[c][1].robot_state.stamp = 1
        /\ SkewQueryFailed(c) /\ ReturnedError(c)

\* The sub-states a call has produced so far, or returned.
SubStates(c) ==
    IF ReturnedState(c)
    THEN {ret[c][1].value[1][nm] : nm \in DOMAIN ret[c][1].value[1]}
    ELSE {parts[c][k] : k \in 1..Len(parts[c])}

\* C4 (skew uniformity): a call queries getClockSkew at most once, exactly
\* once when it translates or returns a RobotState, and every timestamp in
\* the sub-states it has produced is the raw timestamp shifted by the value
\* that one query returned, whatever the time-sync thread has written since.
C4_SkewUniformity ==
    \A c \in Callers :
        /\ Len(skewRead[c]) <= 1
        /\ SubStates(c) # {} =>
             /\ Len(skewRead[c]) = 1
             /\ \A p \in SubStates(c) :
                  /\ p.stamp # None =>
                       p.stamp[1] - p.data.stamp = skewRead[c][1].value[1]
                  /\ p.args.clock_skew # None =>
                       p.args.clock_skew = skewRead[c][1].value

\* A call is in the middle of translating while the time-sync thread holds
\* an estimate other than the one the call read.
C4_Witness ==
    \E c \in Callers :
        /\ pc[c] = "translate"
        /\ Len(parts[c]) \in 1..(NumTranslators - 1)
        /\ estimate # None
        /\ estimate # skewRead[c][1].value

\* The sub-states whose translator takes the skew, and those whose
\* translator is called with the raw state alone.
SkewedSubStates ==
    { "battery_states", "estop_states", "joint_states", "tf", "odom_twist",
      "odom", "power_state", "system_fault_state", "end_effector_force",
      "behavior_fault_state" }
UnskewedSubStates == {"wifi_state", "foot_state", "manipulator_state"}

\* C5 as claimed: in every returned RobotState each of the 13 sub-states,
\* Wi-Fi, foot and manipulator state included, was made by a translator that
\* was given the call's skew and carries the raw timestamp shifted by it.
C5_EveryTranslatorGivenSkew ==
    \A c \in Callers :
        ReturnedState(c) =>
            \A nm \in SubStateNames :
                LET p == ret[c][1].value[1][nm] IN
                /\ p.args.clock_skew = skewRead[c][1].value
                /\ p.stamp = Some(p.data.stamp + skewRead[c][1].value[1])

\* C5 as amended: in every returned RobotState each of the ten sub-states
\* battery, e-stop, joints, tf, odom-twist, odometry, power, system faults,
\* end-effector force and behavior faults was made by a translator that was
\* given the call's skew and carries the raw timestamp shifted by it; the
\* Wi-Fi, foot and manipulator-state translators are called with the raw
\* state alone, are given no skew and shift no timestamp.
C5_SkewedTranslatorsShift ==
    \A c \in Callers :
        ReturnedState(c) =>
            /\ \A nm \in SkewedSubStates :
                 LET p == ret[c][1].value[1][nm] IN
                 /\ p.args.clock_skew = skewRead[c][1].value
                 /\ p.stamp = Some(p.data.stamp + skewRead[c][1].value[1])
            /\ \A nm \in UnskewedSubStates :
                 LET p == ret[c][1].value[1][nm] IN
                 /\ p.args.clock_skew = None
                 /\ p.stamp = None

\* A call returned a RobotState made with a skew that is not zero.
C5_Witness ==
    \E c \in Callers :
        /\ ReturnedState(c)
        /\ skewRead[c][1].value = Some(1)
        /\ ret[c][1].value[1]["battery_states"].stamp
             = Some(answer[c][1].robot_state.stamp + 1)


\* The frame prefix the specification derives from a robot name.
PrefixOf(name) == IF name = "" THEN "" ELSE name \o "/"

\* C6 (odometry choice): GetOdom is told to use vision-based odometry if and
\* only if preferred_odom_frame is the frame prefix followed by "vision";
\* for every other value it is told to use built-in odometry, and the value
\* of preferred_odom_frame never turns a call with a usable fetch and skew
\* into an error.
C6_OdometryChoice ==
    \A c \in Callers :
        /\ \A p \in SubStates(c) :
             p.name = "odom" =>
                 LET pref == preferred_odom_frame[c][1]
                     vision ==
                         \/ robot_name = "" /\ pref = "vision"
                         \/ robot_name # "" /\ pref = robot_name \o "/vision"
                 IN /\ p.args.is_using_vision = Some(vision)
                    /\ p.odom_frame =
                         Some(PrefixOf(robot_name)
                              \o (IF vision THEN "vision" ELSE "odom"))
        /\ (Returned(c) /\ AnswerOk(c) /\ ~SkewQueryFailed(c)) =>
             (ret[c][1].has_value /\ "odom" \in DOMAIN ret[c][1].value[1])

\* Under the prefix "spot1/" a call preferred the unrecognized "map" and
\* returned a RobotState with built-in odometry, not an error.
C6_Witness ==
    \E c \in Callers :
        /\ robot_name = "spot1"
        /\ ReturnedState(c) /\ preferred_odom_frame[c] = Some("map")
        /\ ret[c][1].value[1]["odom"].args.is_using_vision = Some(FALSE)
        /\ ret[c][1].value[1]["odom"].odom_frame = Some("spot1/odom")

\* The translators that emit frame names.
FrameSubStates == {"joint_states", "tf", "odom", "end_effector_force"}

\* C7 (frame prefix derivation): frame_prefix_ is the empty string when the
\* robot name is empty and robot_name followed by "/" otherwise, no step
\* changes it, and it is the prefix given to the joints, tf, odometry and
\* end-effector-force translators in every call.
C7_FramePrefix ==
    /\ [](/\ frame_prefix_ = PrefixOf(robot_name)
          /\ \A c \in Callers : \A p \in SubStates(c) :
                p.name \in FrameSubStates =>
                    p.args.frame_prefix = Some(PrefixOf(robot_name)))
    /\ [][frame_prefix_' = frame_prefix_]_vars

\* A client constructed with a robot name returned a RobotState whose
\* end-effector force is in a prefixed frame.
C7_Witness ==
    \E c \in Callers :
        /\ robot_name = "spot1"
        /\ ReturnedState(c)
        /\ ret[c][1].value[1]["end_effector_force"].frame = Some("spot1/hand")
        /\ ret[c][1].value[1]["joint_states"].args.frame_prefix = Some("spot1/")

\* What getRobotState returns for a remote answer a, the results sk of its
\* getClockSkew queries, a robot name and a preferred odometry frame.
ExpectedParts(a, sk, name, preferred) ==
    [k \in 1..NumTranslators |->
        Translator(k, TranslatorArgs(k, a.robot_state, sk[1].value[1],
                                     PrefixOf(name), preferred))]

ExpectedReturn(a, sk, name, preferred) ==
    IF a.status.code # 0 \/ ~a.has_robot_state
    THEN MakeUnexpected("Failed to get robot state: " \o DebugString(a.status))
    ELSE IF ~sk[1].has_value
    THEN MakeUnexpected("Failed to get latest clock skew: " \o sk[1].error[1])
    ELSE Expected(RobotState(ExpectedParts(a, sk, name, preferred)))

\* C8 (concurrent calls do not interfere): whatever the other caller does,
\* the value a call returns, and every sub-state it has produced so far, is
\* the function of its own remote answer, the skew it read, the robot name
\* and its own preferred_odom_frame.
C8_NoInterference ==
    \A c \in Callers :
        /\ Returned(c) =>
             ret[c][1] = ExpectedReturn(answer[c][1], skewRead[c], robot_name,
                                        preferred_odom_frame[c][1])
        /\ \A k \in 1..Len(parts[c]) :
             parts[c][k] = ExpectedParts(answer[c][1], skewRead[c], robot_name,
                                         preferred_odom_frame[c][1])[k]

\* Both callers are inside getRobotState at once, both fetches fail, and
\* each call returns the error of its own failure.
C8_Witness ==
    \E c, d \in Callers :
        /\ c # d
        /\ overlapped
        /\ ReturnedError(c) /\ ~AnswerOk(c)
        /\ ReturnedError(d) /\ ~AnswerOk(d)
        /\ answer[c][1].status # answer[d][1].status
        /\ ret[c][1].error # ret[d][1].error

\* C9 (no internal retry): a call has issued exactly one GetRobotStateAsync
\* request from its first statement until its caller takes the result,
\* whether the fetch or the skew query failed or not.
C9_ExactlyOneRequest ==
    \A c \in Callers :
        /\ pc[c] = "idle" => sent[c] = 0
        /\ pc[c] # "idle" => sent[c] = 1

\* One call returned after a failed fetch and another after a failed skew
\* query, each having issued one request.
C9_Witness ==
    \E c, d \in Callers :
        /\ ReturnedError(c) /\ ~AnswerOk(c) /\ sent[c] = 1
        /\ ReturnedError(d) /\ SkewQueryFailed(d) /\ sent[d] = 1

\* C10 (abandoned fetch): once a higher layer has given up on a call's
\* request that the remote has not answered, the call ends with a
\* fetch-failure error and holds no request any more.
C10_AbandonedFetchEnds ==
    \A c \in Callers :
        abandoned[c] ~>
            (/\ Returned(c)
             /\ ~ret[c][1].has_value
             /\ future[c] = NoFuture)


(***************************************************************************)
(* The initializer list of `out`, its 13 translators run in any order.     *)
(***************************************************************************)
PermInputs ==
    [raw : RawStates, skew : 0..MaxSkew, robot_name : RobotNames,
     preferred : OdomFrames]

\* A translator that normalises the raw state it is handed in place.
RawAfterTranslatorInPlace(k, rs) == IF k = TfIndex THEN DefaultRawState ELSE rs

\* The raw state once initializer k has run: line 30 declares it const, so
\* every initializer leaves it as it found it.
RawAfterTranslator(k, rs) == rs

\* The k-th initializer, for the inputs of the run and the raw state rs.
PermTranslate(k, in, rs) ==
    Translator(k, TranslatorArgs(k, rs, in.skew, FramePrefix(in.robot_name),
                                 in.preferred))

PermInit ==
    /\ perm_input \in {Some(in) : in \in PermInputs}
    /\ perm_raw = Some(perm_input[1].raw)
    /\ perm_out = [k \in 1..NumTranslators |-> None]
    /\ GetRobotStateIdle /\ ConvIdle /\ JointIdle /\ WiggleIdle

\* Initializer k runs, whatever has run before it.
RunTranslator(k) ==
    /\ perm_out[k] = None
    /\ perm_out' =
           [perm_out EXCEPT ![k] = Some(PermTranslate(k, perm_input[1], perm_raw[1]))]
    /\ perm_raw' = Some(RawAfterTranslator(k, perm_raw[1]))
    /\ UNCHANGED <<perm_input, getRobotStateVars, convVars, jointVars, wiggleVars>>

PermNext == \E k \in 1..NumTranslators : RunTranslator(k)

PermSpec == PermInit /\ [][PermNext]_vars

\* The members of `out` from the k-th on, run in the order of lines 32-45.
RECURSIVE InOrderFrom(_, _, _)
InOrderFrom(k, in, rs) ==
    IF k > NumTranslators THEN <<>>
    ELSE <<PermTranslate(k, in, rs)>>
         \o InOrderFrom(k + 1, in, RawAfterTranslator(k, rs))

NarrowBits == 3
WideBits == 5

SignedRange(w) == -(2 ^ (w - 1)) .. (2 ^ (w - 1)) - 1
UnsignedRange(w) == 0 .. (2 ^ w) - 1

\* Conversion of an integer to a signed or unsigned type of w bits.
ToSigned(x, w) == ((x + 2 ^ (w - 1)) % (2 ^ w)) - 2 ^ (w - 1)
ToUnsigned(x, w) == x % (2 ^ w)

\* google::protobuf::Timestamp and builtin_interfaces::msg::Time.
ProtoTimestamps == [seconds : SignedRange(WideBits), nanos : SignedRange(NarrowBits)]
RosTimes == [sec : SignedRange(NarrowBits), nanosec : UnsignedRange(NarrowBits)]
DefaultTimestamp == [seconds |-> 0, nanos |-> 0]
DefaultTime == [sec |-> 0, nanosec |-> 0]

\* A submessage field of a proto: absent, or present with a value.
\* field() reads the default instance when absent; mutable_field() makes
\* the field present.
Has(field) == field # None
Get(field, default) == IF field = None THEN default ELSE field[1]

\* Lines 12-13: set_seconds(int64) of an int32, set_nanos(int32) of a
\* uint32.
convertBuiltinInterfacesTimeToProto(ros_msg, proto) ==
    [proto EXCEPT !.seconds = ToSigned(ros_msg.sec, WideBits),
                  !.nanos = ToSigned(ros_msg.nanosec, NarrowBits)]

\* Line 108: an int32 assigned from an int64.
AssignSec(seconds) == ToSigned(seconds, NarrowBits)

\* Line 109 with negative nanos stored as 0.
AssignNanosecClamped(nanos) == IF nanos < 0 THEN 0 ELSE nanos

\* Line 109: a uint32 assigned from an int32.
AssignNanosec(nanos) == ToUnsigned(nanos, NarrowBits)

convertProtoToBuiltinInterfacesTime(proto, ros_msg) ==
    [ros_msg EXCEPT !.sec = AssignSec(proto.seconds),
                    !.nanosec = AssignNanosec(proto.nanos)]

\* The values of a double field that the calls below are tried with.
Doubles == {0, 1}
\* Timestamps of the proto headers: the default instance's value and
\* another.
HeaderTimestamps == {DefaultTimestamp, [seconds |-> 1, nanos |-> 2]}

Optional(S) == {None} \cup {Some(v) : v \in S}

\* bosdyn::api::RequestHeader and bosdyn_msgs::msg::RequestHeader.
ProtoRequestHeaders ==
    [request_timestamp : Optional(HeaderTimestamps), client_name : {"", "client"},
     disable_rpc_logging : BOOLEAN]
RosRequestHeaders ==
    [request_timestamp : {DefaultTime, [sec |-> 1, nanosec |-> 2]}, request_timestamp_is_set : BOOLEAN,
     client_name : {"", "client"}, disable_rpc_logging : BOOLEAN]
DefaultProtoRequestHeader ==
    [request_timestamp |-> None, client_name |-> "", disable_rpc_logging |-> FALSE]
DefaultRosRequestHeader ==
    [request_timestamp |-> DefaultTime, request_timestamp_is_set |-> FALSE,
     client_name |-> "", disable_rpc_logging |-> FALSE]

\* Lines 18-20: the request_timestamp of the proto after the conversion.
RequestTimestampToProto(ros_msg, proto) ==
    IF ros_msg.request_timestamp_is_set
    THEN Some(convertBuiltinInterfacesTimeToProto(
                  ros_msg.request_timestamp,
                  Get(proto.request_timestamp, DefaultTimestamp)))
    ELSE proto.request_timestamp

convertBosdynMsgsRequestHeaderToProto(ros_msg, proto) ==
    [proto EXCEPT !.request_timestamp = RequestTimestampToProto(ros_msg, proto),
                  !.client_name = ros_msg.client_name,
                  !.disable_rpc_logging = ros_msg.disable_rpc_logging]

convertProtoToBosdynMsgsRequestHeader(proto, ros_msg) ==
    [ros_msg EXCEPT
        !.request_timestamp =
            convertProtoToBuiltinInterfacesTime(
                Get(proto.request_timestamp, DefaultTimestamp), @),
        !.request_timestamp_is_set = Has(proto.request_timestamp),
        !.client_name = proto.client_name,
        !.disable_rpc_logging = proto.disable_rpc_logging]

\* bosdyn::api::CommonError and bosdyn_msgs::msg::CommonError.
ProtoCommonErrors == [code : {0, 1}, message : {"", "timeout"}]
DefaultProtoCommonError == [code |-> 0, message |-> ""]
DefaultRosCommonError == [code |-> [value |-> 0], message |-> ""]

convertProtoToBosdynMsgsCommonError(proto, ros_msg) ==
    [ros_msg EXCEPT !.code = [@ EXCEPT !.value = proto.code],
                    !.message = proto.message]

\* bosdyn::api::ResponseHeader and bosdyn_msgs::msg::ResponseHeader.
ProtoResponseHeaders ==
    [request_header : Optional(ProtoRequestHeaders),
     request_received_timestamp : Optional(HeaderTimestamps),
     response_timestamp : Optional(HeaderTimestamps),
     error : Optional(ProtoCommonErrors)]
DefaultRosResponseHeader ==
    [request_header |-> DefaultRosRequestHeader,
     request_header_is_set |-> FALSE,
     request_received_timestamp |-> DefaultTime,
     request_received_timestamp_is_set |-> FALSE,
     response_timestamp |-> DefaultTime,
     response_timestamp_is_set |-> FALSE,
     error |-> DefaultRosCommonError,
     error_is_set |-> FALSE]

convertProtoToBosdynMsgsResponseHeader(proto, ros_msg) ==
    [ros_msg EXCEPT
        !.request_header =
            convertProtoToBosdynMsgsRequestHeader(
                Get(proto.request_header, DefaultProtoRequestHeader), @),
        !.request_header_is_set = Has(proto.request_header),
        !.request_received_timestamp =
            convertProtoToBuiltinInterfacesTime(
                Get(proto.request_received_timestamp, DefaultTimestamp), @),
        !.request_received_timestamp_is_set = Has(proto.request_received_timestamp),
        !.response_timestamp =
            convertProtoToBuiltinInterfacesTime(
                Get(proto.response_timestamp, DefaultTimestamp), @),
        !.response_timestamp_is_set = Has(proto.response_timestamp),
        !.error =
            convertProtoToBosdynMsgsCommonError(
                Get(proto.error, DefaultProtoCommonError), @),
        !.error_is_set = Has(proto.error)]

\* bosdyn_msgs::msg::ArmJointPosition and bosdyn::api::ArmJointPosition,
\* whose six fields are google::protobuf::DoubleValue submessages.
ArmJoints == {"sh0", "sh1", "el0", "el1", "wr0", "wr1"}
RosArmJointPositions ==
    [sh0 : Doubles, sh0_is_set : BOOLEAN, sh1 : Doubles, sh1_is_set : BOOLEAN,
     el0 : Doubles, el0_is_set : BOOLEAN, el1 : Doubles, el1_is_set : BOOLEAN,
     wr0 : Doubles, wr0_is_set : BOOLEAN, wr1 : Doubles, wr1_is_set : BOOLEAN]
EmptyProtoArmJointPosition == [j \in ArmJoints |-> None]
DefaultDoubleValue == [value |-> 0]

convertGloat64ToProto(ros_msg, proto) == [proto EXCEPT !.value = ros_msg]

\* Lines 56-73 with every field converted, set or not.
ArmJointToProtoUnguarded(is_set, value, field) ==
    Some(convertGloat64ToProto(value, Get(field, DefaultDoubleValue)))

\* One of the six ifs of lines 56-73.
ArmJointToProto(is_set, value, field) ==
    IF is_set
    THEN Some(convertGloat64ToProto(value, Get(field, DefaultDoubleValue)))
    ELSE field

convertBosdynMsgsArmJointPositionToProto(ros_msg, proto) ==
    [proto EXCEPT
        !.sh0 = ArmJointToProto(ros_msg.sh0_is_set, ros_msg.sh0, @),
        !.sh1 = ArmJointToProto(ros_msg.sh1_is_set, ros_msg.sh1, @),
        !.el0 = ArmJointToProto(ros_msg.el0_is_set, ros_msg.el0, @),
        !.el1 = ArmJointToProto(ros_msg.el1_is_set, ros_msg.el1, @),
        !.wr0 = ArmJointToProto(ros_msg.wr0_is_set, ros_msg.wr0, @),
        !.wr1 = ArmJointToProto(ros_msg.wr1_is_set, ros_msg.wr1, @)]

\* geometry_msgs Vector3, Point, Quaternion, Pose and bosdyn::api Vec3,
\* Quaternion, SE3Pose.  Non-unit quaternions are among the values.
RosVector3s == [x : Doubles, y : Doubles, z : Doubles]
RosPoints == [x : Doubles, y : Doubles, z : Doubles]
ProtoVec3s == [x : Doubles, y : Doubles, z : Doubles]
RosQuaternions == [x : Doubles, y : Doubles, z : Doubles, w : Doubles]
ProtoQuaternions == [x : Doubles, y : Doubles, z : Doubles, w : Doubles]
RosPoses == [position : RosPoints, orientation : RosQuaternions]
ProtoSE3Poses == [position : Optional(ProtoVec3s), rotation : Optional(ProtoQuaternions)]
DefaultVec3 == [x |-> 0, y |-> 0, z |-> 0]
DefaultProtoQuaternion == [x |-> 0, y |-> 0, z |-> 0, w |-> 0]
\* geometry_msgs::msg::Quaternion is constructed as the identity rotation.
DefaultRosQuaternion == [x |-> 0, y |-> 0, z |-> 0, w |-> 1]
DefaultRosPose == [position |-> DefaultVec3, orientation |-> DefaultRosQuaternion]
EmptyProtoSE3Pose == [position |-> None, rotation |-> None]

convertGeometryMsgsVector3ToProto(ros_msg, proto) ==
    [proto EXCEPT !.x = ros_msg.x, !.y = ros_msg.y, !.z = ros_msg.z]

convertGeometryMsgsPointToProto(ros_msg, proto) ==
    [proto EXCEPT !.x = ros_msg.x, !.y = ros_msg.y, !.z = ros_msg.z]

\* Lines 39-42 with w and x stored into each other's field.
QuaternionToProtoWFirst(ros_msg, proto) ==
    [proto EXCEPT !.w = ros_msg.x, !.x = ros_msg.w, !.y = ros_msg.y, !.z = ros_msg.z]

convertGeometryMsgsQuaternionToProto(ros_msg, proto) ==
    [proto EXCEPT !.w = ros_msg.w, !.x = ros_msg.x, !.y = ros_msg.y, !.z = ros_msg.z]

convertGeometryMsgsPoseToProto(ros_msg, proto) ==
    [proto EXCEPT
        !.position =
            Some(convertGeometryMsgsPointToProto(ros_msg.position, Get(@, DefaultVec3))),
        !.rotation =
            Some(convertGeometryMsgsQuaternionToProto(
                     ros_msg.orientation, Get(@, DefaultProtoQuaternion)))]

\* The overload of line 112 (Vector3) and that of line 118 (Point).
convertProtoToGeometryMsgsVector3(proto, ros_msg) ==
    [ros_msg EXCEPT !.x = proto.x, !.y = proto.y, !.z = proto.z]

convertProtoToGeometryMsgsPoint(proto, ros_msg) ==
    [ros_msg EXCEPT !.x = proto.x, !.y = proto.y, !.z = proto.z]

convertProtoToGeometryMsgsQuaternion(proto, ros_msg) ==
    [ros_msg EXCEPT !.w = proto.w, !.x = proto.x, !.y = proto.y, !.z = proto.z]

convertProtoToGeometryMsgsPose(proto, ros_msg) ==
    [ros_msg EXCEPT
        !.position =
            convertProtoToGeometryMsgsPoint(Get(proto.position, DefaultVec3), @),
        !.orientation =
            convertProtoToGeometryMsgsQuaternion(
                Get(proto.rotation, DefaultProtoQuaternion), @)]

(***************************************************************************)
(* One call of a conversion, or of a conversion and then its opposite, on  *)
(* an argument and an output argument chosen beforehand.                   *)
(***************************************************************************)
ConvCall(fn, Args, Targets) == [fn : {fn}, arg : Args, target : Targets]

ConvInputs ==
    ConvCall("ArmJointPositionToProto", RosArmJointPositions,
             {EmptyProtoArmJointPosition,
              [j \in ArmJoints |-> Some([value |-> 1])]})
    \cup ConvCall("RequestHeaderToProto", RosRequestHeaders,
                  {DefaultProtoRequestHeader,
                   [request_timestamp |-> Some([seconds |-> 1, nanos |-> 2]),
                    client_name |-> "client", disable_rpc_logging |-> TRUE]})
    \cup ConvCall("ProtoToRequestHeader", ProtoRequestHeaders, {DefaultRosRequestHeader})
    \cup ConvCall("ProtoToResponseHeader", ProtoResponseHeaders, {DefaultRosResponseHeader})
    \cup ConvCall("TimestampRoundTrip", ProtoTimestamps, {DefaultTime})
    \cup ConvCall("TimeRoundTrip", RosTimes, {DefaultTimestamp})
    \cup ConvCall("Vector3RoundTrip", RosVector3s, {DefaultVec3})
    \cup ConvCall("PointRoundTrip", RosPoints, {DefaultVec3})
    \cup ConvCall("QuaternionRoundTrip", RosQuaternions, {DefaultProtoQuaternion})
    \cup ConvCall("PoseRoundTrip", RosPoses, {EmptyProtoSE3Pose})
    \cup ConvCall("Vec3ViaVector3RoundTrip", ProtoVec3s, {DefaultVec3})
    \cup ConvCall("Vec3ViaPointRoundTrip", ProtoVec3s, {DefaultVec3})
    \cup ConvCall("ProtoQuaternionRoundTrip", ProtoQuaternions, {DefaultRosQuaternion})
    \cup ConvCall("SE3PoseRoundTrip", ProtoSE3Poses, {DefaultRosPose})

ConvInit ==
    /\ conv_in \in {Some(c) : c \in ConvInputs}
    /\ conv_out = None
    /\ GetRobotStateIdle /\ PermIdle /\ JointIdle /\ WiggleIdle

\* The call named fn returns, leaving `result` in its output argument.
ConvReturn(fn, result) ==
    /\ conv_in[1].fn = fn
    /\ conv_out = None
    /\ conv_out' = Some(result)
    /\ UNCHANGED <<conv_in, getRobotStateVars, permVars, jointVars, wiggleVars>>

\* A conversion followed by its opposite into a fresh `back`: what the
\* first left in its output and what the second did.
RoundTrip(there, back) == [there |-> there, back |-> back]

CallArmJointPositionToProto ==
    ConvReturn("ArmJointPositionToProto",
               convertBosdynMsgsArmJointPositionToProto(conv_in[1].arg, conv_in[1].target))

CallRequestHeaderToProto ==
    ConvReturn("RequestHeaderToProto",
               convertBosdynMsgsRequestHeaderToProto(conv_in[1].arg, conv_in[1].target))

CallProtoToRequestHeader ==
    ConvReturn("ProtoToRequestHeader",
               convertProtoToBosdynMsgsRequestHeader(conv_in[1].arg, conv_in[1].target))

CallProtoToResponseHeader ==
    ConvReturn("ProtoToResponseHeader",
               convertProtoToBosdynMsgsResponseHeader(conv_in[1].arg, conv_in[1].target))

TimestampRoundTrip ==
    LET ros == convertProtoToBuiltinInterfacesTime(conv_in[1].arg, conv_in[1].target)
    IN ConvReturn("TimestampRoundTrip",
                  RoundTrip(ros, convertBuiltinInterfacesTimeToProto(ros, DefaultTimestamp)))

TimeRoundTrip ==
    LET proto == convertBuiltinInterfacesTimeToProto(conv_in[1].arg, conv_in[1].target)
    IN ConvReturn("TimeRoundTrip",
                  RoundTrip(proto, convertProtoToBuiltinInterfacesTime(proto, DefaultTime)))

Vector3RoundTrip ==
    LET proto == convertGeometryMsgsVector3ToProto(conv_in[1].arg, conv_in[1].target)
    IN ConvReturn("Vector3RoundTrip",
                  RoundTrip(proto, convertProtoToGeometryMsgsVector3(proto, DefaultVec3)))

PointRoundTrip ==
    LET proto == convertGeometryMsgsPointToProto(conv_in[1].arg, conv_in[1].target)
    IN ConvReturn("PointRoundTrip",
                  RoundTrip(proto, convertProtoToGeometryMsgsPoint(proto, DefaultVec3)))

QuaternionRoundTrip ==
    LET proto == convertGeometryMsgsQuaternionToProto(conv_in[1].arg, conv_in[1].target)
    IN ConvReturn("QuaternionRoundTrip",
                  RoundTrip(proto,
                            convertProtoToGeometryMsgsQuaternion(proto, DefaultRosQuaternion)))

PoseRoundTrip ==
    LET proto == convertGeometryMsgsPoseToProto(conv_in[1].arg, conv_in[1].target)
    IN ConvReturn("PoseRoundTrip",
                  RoundTrip(proto, convertProtoToGeometryMsgsPose(proto, DefaultRosPose)))

Vec3ViaVector3RoundTrip ==
    LET ros == convertProtoToGeometryMsgsVector3(conv_in[1].arg, conv_in[1].target)
    IN ConvReturn("Vec3ViaVector3RoundTrip",
                  RoundTrip(ros, convertGeometryMsgsVector3ToProto(ros, DefaultVec3)))

Vec3ViaPointRoundTrip ==
    LET ros == convertProtoToGeometryMsgsPoint(conv_in[1].arg, conv_in[1].target)
    IN ConvReturn("Vec3ViaPointRoundTrip",
                  RoundTrip(ros, convertGeometryMsgsPointToProto(ros, DefaultVec3)))

ProtoQuaternionRoundTrip ==
    LET ros == convertProtoToGeometryMsgsQuaternion(conv_in[1].arg, conv_in[1].target)
    IN ConvReturn("ProtoQuaternionRoundTrip",
                  RoundTrip(ros,
                            convertGeometryMsgsQuaternionToProto(ros, DefaultProtoQuaternion)))

SE3PoseRoundTrip ==
    LET ros == convertProtoToGeometryMsgsPose(conv_in[1].arg, conv_in[1].target)
    IN ConvReturn("SE3PoseRoundTrip",
                  RoundTrip(ros, convertGeometryMsgsPoseToProto(ros, EmptyProtoSE3Pose)))

ConvNext ==
    \/ CallArmJointPositionToProto
    \/ CallRequestHeaderToProto
    \/ CallProtoToRequestHeader
    \/ CallProtoToResponseHeader
    \/ TimestampRoundTrip
    \/ TimeRoundTrip
    \/ Vector3RoundTrip
    \/ PointRoundTrip
    \/ QuaternionRoundTrip
    \/ PoseRoundTrip
    \/ Vec3ViaVector3RoundTrip
    \/ Vec3ViaPointRoundTrip
    \/ ProtoQuaternionRoundTrip
    \/ SE3PoseRoundTrip

ConvSpec == ConvInit /\ [][ConvNext]_vars


\* The call of conv_in has returned; its argument, output argument and
\* result.
ConvDone(fn) == conv_out # None /\ conv_in[1].fn = fn
ConvArg == conv_in[1].arg
ConvTarget == conv_in[1].target
ConvResult == conv_out[1]

\* C12: absent optional fields are never synthesized.  Converting into an
\* empty proto, ArmJointPositionToProto makes each of sh0..wr1 present iff
\* its _is_set flag is true and RequestHeaderToProto makes
\* request_timestamp present iff request_timestamp_is_set; the opposite
\* conversions of RequestHeader and ResponseHeader set each _is_set flag to
\* the proto's has_ indicator.
C12_AbsentNeverSynthesized ==
    /\ (ConvDone("ArmJointPositionToProto")
            /\ ConvTarget = EmptyProtoArmJointPosition) =>
           \A j \in ArmJoints :
               (ConvResult[j] # None) <=> ConvArg[j \o "_is_set"]
    /\ (ConvDone("RequestHeaderToProto")
            /\ ConvTarget.request_timestamp = None) =>
           ((ConvResult.request_timestamp # None)
                <=> ConvArg.request_timestamp_is_set)
    /\ ConvDone("ProtoToRequestHeader") =>
           (ConvResult.request_timestamp_is_set
                <=> (ConvArg.request_timestamp # None))
    /\ ConvDone("ProtoToResponseHeader") =>
           /\ ConvResult.request_header_is_set <=> (ConvArg.request_header # None)
           /\ ConvResult.request_received_timestamp_is_set
                  <=> (ConvArg.request_received_timestamp # None)
           /\ ConvResult.response_timestamp_is_set
                  <=> (ConvArg.response_timestamp # None)
           /\ ConvResult.error_is_set <=> (ConvArg.error # None)
           /\ ConvResult.request_header.request_timestamp_is_set
                  <=> /\ ConvArg.request_header # None
                      /\ ConvArg.request_header[1].request_timestamp # None

\* An ArmJointPosition with sh0 set and wr1 not set, though wr1 holds a
\* value, was converted into an empty proto: sh0 is there, wr1 is not.
C12_Witness ==
    /\ ConvDone("ArmJointPositionToProto")
    /\ ConvTarget = EmptyProtoArmJointPosition
    /\ ConvArg.sh0_is_set /\ ~ConvArg.wr1_is_set /\ ConvArg.wr1 = 1
    /\ ConvResult.sh0 = Some([value |-> ConvArg.sh0])
    /\ ConvResult.wr1 = None

\* C13: for every protobuf Timestamp, convertProtoToBuiltinInterfacesTime
\* followed by convertBuiltinInterfacesTimeToProto returns the same seconds
\* and nanos, and for every ROS Time the opposite round trip returns the
\* same sec and nanosec.
C13_EveryTimestampRoundTrips ==
    /\ ConvDone("TimestampRoundTrip") =>
           /\ ConvResult.back.seconds = ConvArg.seconds
           /\ ConvResult.back.nanos = ConvArg.nanos
    /\ ConvDone("TimeRoundTrip") =>
           /\ ConvResult.back.sec = ConvArg.sec
           /\ ConvResult.back.nanosec = ConvArg.nanosec

\* C13, amended: a ROS Time comes back from the round trip with the same
\* sec and nanosec; a Timestamp comes back with the same nanos and with its
\* seconds reduced to the width of Time::sec, which are the same seconds
\* when they fit that width.
C13_TimestampRoundTrip ==
    /\ ConvDone("TimestampRoundTrip") =>
           /\ ConvResult.back.nanos = ConvArg.nanos
           /\ ConvResult.back.seconds = ToSigned(ConvArg.seconds, NarrowBits)
           /\ ConvArg.seconds \in SignedRange(NarrowBits) =>
                  ConvResult.back.seconds = ConvArg.seconds
    /\ ConvDone("TimeRoundTrip") => ConvResult.back = ConvArg

\* A Timestamp with the largest seconds Time::sec holds and negative nanos
\* came back whole, through a nanosec that is not the nanos.
C13_Witness ==
    /\ ConvDone("TimestampRoundTrip")
    /\ ConvArg.seconds = 2 ^ (NarrowBits - 1) - 1
    /\ ConvArg.nanos = -1
    /\ ConvResult.there.nanosec = 2 ^ NarrowBits - 1
    /\ ConvResult.back = ConvArg

kNjointsArm == 19
kNjointsNoArm == 12

kJointNameToIndexWithArm ==
    ("front_left_hip_x" :> 0) @@ ("front_left_hip_y" :> 1)
    @@ ("front_left_knee" :> 2) @@ ("front_right_hip_x" :> 3)
    @@ ("front_right_hip_y" :> 4) @@ ("front_right_knee" :> 5)
    @@ ("rear_left_hip_x" :> 6) @@ ("rear_left_hip_y" :> 7)
    @@ ("rear_left_knee" :> 8) @@ ("rear_right_hip_x" :> 9)
    @@ ("rear_right_hip_y" :> 10) @@ ("rear_right_knee" :> 11)
    @@ ("arm_sh0" :> 12) @@ ("arm_sh1" :> 13) @@ ("arm_el0" :> 14)
    @@ ("arm_el1" :> 15) @@ ("arm_wr0" :> 16) @@ ("arm_wr1" :> 17)
    @@ ("arm_f1x" :> 18)

kJointNameToIndexWithoutArm ==
    ("front_left_hip_x" :> 0) @@ ("front_left_hip_y" :> 1)
    @@ ("front_left_knee" :> 2) @@ ("front_right_hip_x" :> 3)
    @@ ("front_right_hip_y" :> 4) @@ ("front_right_knee" :> 5)
    @@ ("rear_left_hip_x" :> 6) @@ ("rear_left_hip_y" :> 7)
    @@ ("rear_left_knee" :> 8) @@ ("rear_right_hip_x" :> 9)
    @@ ("rear_right_hip_y" :> 10) @@ ("rear_right_knee" :> 11)

\* The empty std::unordered_map, and m[key] = value.
EmptyMap == [k \in {} |-> 0]
MapInsert(m, key, value) == (key :> value) @@ m

\* Line 74 without the "/".
JointPrefixNoSlash(spot_name) == spot_name

\* Line 74.
JointPrefix(spot_name) == spot_name \o "/"

\* The loop of lines 75-77 over the pairs of default_map not yet visited.
RECURSIVE NamespaceLoop(_, _, _, _)
NamespaceLoop(default_map, todo, joint_prefix, namespaced_map) ==
    IF todo = {} THEN namespaced_map
    ELSE LET first == CHOOSE nm \in todo : TRUE
         IN NamespaceLoop(default_map, todo \ {first}, joint_prefix,
                          MapInsert(namespaced_map, joint_prefix \o first,
                                    default_map[first]))

get_namespaced_joint_map(spot_name, has_arm) ==
    LET default_map ==
            IF has_arm THEN kJointNameToIndexWithArm ELSE kJointNameToIndexWithoutArm
    IN IF spot_name = "" THEN default_map
       ELSE NamespaceLoop(default_map, DOMAIN default_map,
                          JointPrefix(spot_name), EmptyMap)

\* std::vector::resize(n): the first n elements kept, value-initialized
\* elements appended.
RECURSIVE Resize(_, _, _)
Resize(v, n, fresh) ==
    IF Len(v) >= n THEN SubSeq(v, 1, n) ELSE Resize(Append(v, fresh), n, fresh)

\* Line 111 with operator[] for at(): a missing name reads as index 0.
LookupJointOrZero(joint_map, joint_name) ==
    IF joint_name \in DOMAIN joint_map THEN Some(joint_map[joint_name]) ELSE Some(0)

\* joint_map.at(joint_name): the index, or nothing where at() throws.
LookupJoint(joint_map, joint_name) ==
    IF joint_name \in DOMAIN joint_map THEN Some(joint_map[joint_name]) ELSE None

\* What a call of order_joint_states comes to: it returns a value, or lets the
\* out_of_range of line 109 escape, with output_joint_states as it then is.
OrderResult(returned, value, output) ==
    [returned |-> returned, value |-> value, output_joint_states |-> output]

\* The loop of lines 107-120 from its i-th round on (i counts from 1).  A
\* vector's at(k) throws for k at or past its size.
RECURSIVE OrderLoop(_, _, _, _, _)
OrderLoop(i, njoints, input, joint_map, out) ==
    IF i > njoints THEN OrderResult(TRUE, TRUE, out)
    ELSE IF i > Len(input.name) THEN OrderResult(FALSE, FALSE, out)
    ELSE
      LET joint_name == input.name[i]
          found == LookupJoint(joint_map, joint_name)
      IN IF found = None \/ found[1] >= Len(out.name)
         THEN OrderResult(TRUE, FALSE, out)
         ELSE
           LET joint_index == found[1] + 1
               named == [out EXCEPT !.name[joint_index] = joint_name]
           IN IF joint_index > Len(out.position)
              THEN OrderResult(TRUE, FALSE, named)
              ELSE
                LET placed == [named EXCEPT !.position[joint_index] = input.position[i]]
                IN IF joint_index > Len(out.velocity) \/ i > Len(input.velocity)
                   THEN OrderResult(TRUE, FALSE, placed)
                   ELSE
                     LET moving == [placed EXCEPT
                                       !.velocity[joint_index] = input.velocity[i]]
                     IN IF joint_index > Len(out.effort) \/ i > Len(input.effort)
                        THEN OrderResult(TRUE, FALSE, moving)
                        ELSE OrderLoop(i + 1, njoints, input, joint_map,
                                       [moving EXCEPT
                                           !.effort[joint_index] = input.effort[i]])

order_joint_states(spot_name, input_joint_states, output_joint_states) ==
    LET njoints == Len(input_joint_states.position)
    IN IF njoints # kNjointsArm /\ njoints # kNjointsNoArm
       THEN OrderResult(TRUE, FALSE, output_joint_states)
       ELSE
         LET has_arm == njoints = kNjointsArm
             resized ==
                 [name |-> Resize(output_joint_states.name, njoints, ""),
                  position |-> Resize(output_joint_states.position, njoints, 0),
                  velocity |-> Resize(output_joint_states.velocity, njoints, 0),
                  effort |-> Resize(output_joint_states.effort, njoints, 0)]
         IN OrderLoop(1, njoints, input_joint_states,
                      get_namespaced_joint_map(spot_name, has_arm), resized)


(***************************************************************************)
(* One call of get_namespaced_joint_map or of order_joint_states, on       *)
(* arguments chosen beforehand.                                            *)
(***************************************************************************)
\* The joints of Spot in the order the hardware interface expects them.
JointOrder ==
    << "front_left_hip_x", "front_left_hip_y", "front_left_knee",
       "front_right_hip_x", "front_right_hip_y", "front_right_knee",
       "rear_left_hip_x", "rear_left_hip_y", "rear_left_knee",
       "rear_right_hip_x", "rear_right_hip_y", "rear_right_knee",
       "arm_sh0", "arm_sh1", "arm_el0", "arm_el1", "arm_wr0", "arm_wr1",
       "arm_f1x" >>

\* A joint name as a robot launched in the namespace spot_name reports it.
NamespacedName(spot_name, bare) ==
    IF spot_name = "" THEN bare ELSE spot_name \o "/" \o bare

JointSpotNames == {"", "spot1"}

\* The bare name of the i-th joint of a message of n joints.
BareNameAt(order, n, i) ==
    LET k == CASE order = "expected" -> i
               [] order = "reversed" -> n + 1 - i
               [] OTHER -> (i % n) + 1
    IN IF k <= Len(JointOrder) THEN JointOrder[k] ELSE "extra_joint"

\* The name the message carries at i: the joint's, or the fault's.
FaultyName(spot_name, order, n, i, kind) ==
    CASE kind = "unknown" -> NamespacedName(spot_name, "unknown_joint")
      [] kind = "duplicate" ->
             NamespacedName(spot_name, BareNameAt(order, n, (i % n) + 1))
      [] kind = "other_namespace" ->
             NamespacedName(IF spot_name = "" THEN "spot1" ELSE "",
                            BareNameAt(order, n, i))
      [] OTHER -> NamespacedName(spot_name, "arm_sh0")

\* A sensor_msgs::msg::JointState of n joints: joint i carries the values
\* 100 + i, 200 + i and 300 + i; with_rates = FALSE leaves velocity and
\* effort empty.
JointStateMsg(spot_name, order, n, fault, with_rates) ==
    [ name |->
          [i \in 1..n |->
              IF fault # None /\ fault[1].at = i
              THEN FaultyName(spot_name, order, n, i, fault[1].kind)
              ELSE NamespacedName(spot_name, BareNameAt(order, n, i))],
      position |-> [i \in 1..n |-> 100 + i],
      velocity |-> IF with_rates THEN [i \in 1..n |-> 200 + i] ELSE <<>>,
      effort |-> IF with_rates THEN [i \in 1..n |-> 300 + i] ELSE <<>> ]

\* output_joint_states before the call: a fresh message, or the one an
\* earlier call filled.
EmptyJointState == [name |-> <<>>, position |-> <<>>, velocity |-> <<>>, effort |-> <<>>]
StaleJointState ==
    [ name |-> [i \in 1..kNjointsArm |-> "stale"],
      position |-> [i \in 1..kNjointsArm |-> -1],
      velocity |-> [i \in 1..kNjointsArm |-> -1],
      effort |-> [i \in 1..kNjointsArm |-> -1] ]

\* The calls of order_joint_states tried: messages of the two valid sizes
\* and their neighbours, in three orders, whole or with one name replaced.
OrderCalls ==
    { [ fn |-> "order_joint_states", spot_name |-> sp,
        input_joint_states |-> JointStateMsg(sp, ord, n, fault, rates),
        output_joint_states |-> before ] :
        sp \in JointSpotNames, ord \in {"expected", "reversed", "rotated"},
        n \in {0, 11, 12, 13, 18, 19, 20},
        fault \in Optional([at : 1..kNjointsArm + 1,
                            kind : {"unknown", "duplicate", "other_namespace",
                                    "arm_joint"}]),
        rates \in BOOLEAN, before \in {EmptyJointState, StaleJointState} }

MapCalls ==
    [fn : {"get_namespaced_joint_map"}, spot_name : JointSpotNames, has_arm : BOOLEAN]

JointInit ==
    /\ joint_in \in {Some(c) : c \in OrderCalls \cup MapCalls}
    /\ joint_out = None
    /\ GetRobotStateIdle /\ PermIdle /\ ConvIdle /\ WiggleIdle

CallGetNamespacedJointMap ==
    /\ joint_in[1].fn = "get_namespaced_joint_map"
    /\ joint_out = None
    /\ joint_out' =
           Some(get_namespaced_joint_map(joint_in[1].spot_name, joint_in[1].has_arm))
    /\ UNCHANGED <<joint_in, getRobotStateVars, permVars, convVars, wiggleVars>>

CallOrderJointStates ==
    /\ joint_in[1].fn = "order_joint_states"
    /\ joint_out = None
    /\ joint_out' =
           Some(order_joint_states(joint_in[1].spot_name,
                                   joint_in[1].input_joint_states,
                                   joint_in[1].output_joint_states))
    /\ UNCHANGED <<joint_in, getRobotStateVars, permVars, convVars, wiggleVars>>

JointNext == CallGetNamespacedJointMap \/ CallOrderJointStates

JointSpec == JointInit /\ [][JointNext]_vars


\* The call of joint_in has returned.
JointDone(fn) == joint_out # None /\ joint_in[1].fn = fn

\* C15: get_namespaced_joint_map(spot_name, has_arm) has 19 entries with
\* an arm and 12 without, its indices are a bijection onto 0..n-1, its keys
\* are the bare joint names for an empty spot_name and otherwise
\* spot_name + "/" + bare name, each with the bare name's index, and then
\* no bare name is a key.
C15_NamespacedJointMap ==
    JointDone("get_namespaced_joint_map") =>
        LET m == joint_out[1]
            spot_name == joint_in[1].spot_name
            n == IF joint_in[1].has_arm THEN 19 ELSE 12
            bare == {JointOrder[k] : k \in 1..n}
        IN /\ Cardinality(DOMAIN m) = n
           /\ {m[key] : key \in DOMAIN m} = 0..(n - 1)
           /\ \A a, b \in DOMAIN m : m[a] = m[b] => a = b
           /\ spot_name = "" => DOMAIN m = bare
           /\ spot_name # "" =>
                  /\ DOMAIN m = {spot_name \o "/" \o nm : nm \in bare}
                  /\ DOMAIN m \cap bare = {}
           /\ \A k \in 1..n :
                  m[IF spot_name = "" THEN JointOrder[k]
                    ELSE spot_name \o "/" \o JointOrder[k]] = k - 1

\* The map of a robot with an arm in the namespace spot1 was built.
C15_Witness ==
    /\ JointDone("get_namespaced_joint_map")
    /\ joint_in[1].spot_name = "spot1"
    /\ joint_in[1].has_arm
    /\ "spot1/arm_f1x" \in DOMAIN joint_out[1]
    /\ joint_out[1]["spot1/arm_f1x"] = 18

\* The lists of the input message have one length.
EqualLengths(js) ==
    /\ Len(js.name) = Len(js.position)
    /\ Len(js.velocity) = Len(js.position)
    /\ Len(js.effort) = Len(js.position)

\* C16: for an input whose four lists have one length, order_joint_states
\* returns true iff the joint count is 12 or 19 and every input name is a
\* key of the namespaced joint map for that count and spot_name; for any
\* other count it returns false and leaves output_joint_states as it was.
C16_OrderReturnsTrueIff ==
    (JointDone("order_joint_states")
        /\ EqualLengths(joint_in[1].input_joint_states)) =>
        LET input == joint_in[1].input_joint_states
            n == Len(input.position)
            keys == {NamespacedName(joint_in[1].spot_name, JointOrder[k]) :
                         k \in 1..(IF n <= 19 THEN n ELSE 19)}
        IN /\ joint_out[1].returned
           /\ joint_out[1].value
                  <=> /\ n \in {12, 19}
                      /\ \A i \in 1..n : input.name[i] \in keys
           /\ n \notin {12, 19} =>
                  /\ ~joint_out[1].value
                  /\ joint_out[1].output_joint_states
                         = joint_in[1].output_joint_states

\* A message of 13 joints was refused and left an output that an earlier
\* call had filled as it was.
C16_Witness ==
    /\ JointDone("order_joint_states")
    /\ EqualLengths(joint_in[1].input_joint_states)
    /\ ~joint_out[1].value
    /\ Len(joint_in[1].input_joint_states.position) = 13
    /\ joint_in[1].output_joint_states = StaleJointState
    /\ joint_out[1].output_joint_states = StaleJointState

\* C17: whenever order_joint_states returns true, output name[k] is the
\* namespaced name of the joint of index k and output position[k],
\* velocity[k], effort[k] are the values the input carried for that joint,
\* for every k in 0..n-1: no slot is unfilled or stale.
C17_OutputOrdered ==
    (JointDone("order_joint_states") /\ joint_out[1].returned
        /\ joint_out[1].value) =>
        LET input == joint_in[1].input_joint_states
            out == joint_out[1].output_joint_states
            n == Len(input.position)
        IN /\ Len(out.name) = n /\ Len(out.position) = n
           /\ Len(out.velocity) = n /\ Len(out.effort) = n
           /\ \A k \in 1..n :
                  /\ out.name[k] = NamespacedName(joint_in[1].spot_name, JointOrder[k])
                  /\ \E i \in 1..n :
                         /\ input.name[i] = out.name[k]
                         /\ out.position[k] = input.position[i]
                         /\ out.velocity[k] = input.velocity[i]
                         /\ out.effort[k] = input.effort[i]


(***************************************************************************)
(* spot_ros2_control/examples/src/wiggle_arm.cpp: the WiggleArm node.  Its *)
(* two callbacks run one at a time, on the thread of rclcpp::spin.         *)
(***************************************************************************)
kJointNameToIndex ==
    ("front_left_hip_x" :> 0) @@ ("front_left_hip_y" :> 1)
    @@ ("front_left_knee" :> 2) @@ ("front_right_hip_x" :> 3)
    @@ ("front_right_hip_y" :> 4) @@ ("front_right_knee" :> 5)
    @@ ("rear_left_hip_x" :> 6) @@ ("rear_left_hip_y" :> 7)
    @@ ("rear_left_knee" :> 8) @@ ("rear_right_hip_x" :> 9)
    @@ ("rear_right_hip_y" :> 10) @@ ("rear_right_knee" :> 11)
    @@ ("arm_sh0" :> 12) @@ ("arm_sh1" :> 13) @@ ("arm_el0" :> 14)
    @@ ("arm_el1" :> 15) @@ ("arm_wr0" :> 16) @@ ("arm_wr1" :> 17)
    @@ ("arm_f1x" :> 18)

\* The parameters, command_rate and seconds_per_motion in tenths: the
\* joints wiggled and their offsets, none by default.
WiggleParameters ==
    [ joints_to_wiggle : {<<>>, <<16>>},
      command_rate : {4, 10, 15},
      seconds_per_motion : {10, 20} ]

\* Line 36: the product of the two doubles, truncated to an int.
PointsPerMotion(command_rate, seconds_per_motion) ==
    (command_rate * seconds_per_motion) \div 100

\* count_ has no initializer: the constructor leaves in it whatever the
\* storage held.  MaxGarbage bounds the values tried.
MaxGarbage == 4

WiggleInit ==
    /\ wiggle_state_ = "WIGGLE_DOWN"
    /\ initialized_ = FALSE
    /\ count_ \in -MaxGarbage .. MaxGarbage
    /\ \E params \in WiggleParameters :
           /\ joints_to_wiggle_ = params.joints_to_wiggle
           /\ wiggle_up_offsets_ = [i \in 1..Len(params.joints_to_wiggle) |-> 1]
           /\ wiggle_down_offsets_ = [i \in 1..Len(params.joints_to_wiggle) |-> -1]
           /\ points_per_motion_ =
                  PointsPerMotion(params.command_rate, params.seconds_per_motion)
    /\ nominal_joint_angles_ = <<>>
    /\ command_ = <<>>
    /\ wiggle_event = None
    /\ GetRobotStateIdle /\ PermIdle /\ ConvIdle /\ JointIdle

\* The joint_states messages the node is sent: 0, 12 or 19 joints in the
\* expected or the reverse order, with the values 100 + i, whole or with
\* one name replaced.
WiggleMsgs ==
    { JointStateMsg("", ord, n, fault, TRUE) :
        ord \in {"expected", "reversed"}, n \in {0, kNjointsNoArm, kNjointsArm},
        fault \in {None, Some([at |-> 1, kind |-> "unknown"]),
                   Some([at |-> kNjointsNoArm, kind |-> "unknown"]),
                   Some([at |-> kNjointsNoArm, kind |-> "arm_joint"])} }

\* What the callback that ran last was given, whether it published and
\* what, and whether an exception left it (and ended rclcpp::spin).
WiggleEvent(callback, msg, published, threw) ==
    Some([callback |-> callback, msg |-> msg, published |-> published,
          threw |-> threw])

\* No exception has ended the node.
Spinning == IF wiggle_event = None THEN TRUE ELSE ~wiggle_event[1].threw

\* Line 83 with operator[] for at(): an unknown name reads as index 0.
StartingJointIndexOrZero(joint_name) ==
    IF joint_name \in DOMAIN kJointNameToIndex
    THEN Some(kJointNameToIndex[joint_name]) ELSE Some(0)

\* kJointNameToIndex.at(joint_name): the index, or nothing where at()
\* throws.
StartingJointIndex(joint_name) ==
    IF joint_name \in DOMAIN kJointNameToIndex
    THEN Some(kJointNameToIndex[joint_name]) ELSE None

\* The loop of lines 79-90 from its i-th round on (i counts from 1): how it
\* ends and the nominal joint angles it leaves.
RECURSIVE StartingLoop(_, _, _, _)
StartingLoop(i, njoints, msg, nominal) ==
    IF i > njoints THEN [successful |-> TRUE, threw |-> FALSE, nominal |-> nominal]
    ELSE IF i > Len(msg.name)
    THEN [successful |-> FALSE, threw |-> TRUE, nominal |-> nominal]
    ELSE
      LET joint_index == StartingJointIndex(msg.name[i])
      IN IF joint_index = None \/ joint_index[1] >= Len(nominal)
         THEN [successful |-> FALSE, threw |-> FALSE, nominal |-> nominal]
         ELSE StartingLoop(i + 1, njoints, msg,
                           [nominal EXCEPT ![joint_index[1] + 1] = msg.position[i]])

joint_states_callback(msg) ==
    /\ Spinning
    /\ IF initialized_
       THEN /\ wiggle_event' = WiggleEvent("joint_states_callback", Some(msg), None, FALSE)
            /\ UNCHANGED <<initialized_, nominal_joint_angles_, command_>>
       ELSE LET njoints == Len(msg.position)
                loop == StartingLoop(1, njoints, msg,
                                     Resize(nominal_joint_angles_, njoints, 0))
            IN /\ nominal_joint_angles_' = loop.nominal
               /\ command_' = IF loop.successful THEN loop.nominal ELSE command_
               /\ initialized_' = loop.successful
               /\ wiggle_event' =
                      WiggleEvent("joint_states_callback", Some(msg), None, loop.threw)
    /\ UNCHANGED <<wiggle_state_, count_, points_per_motion_, joints_to_wiggle_,
                   wiggle_up_offsets_, wiggle_down_offsets_>>
    /\ UNCHANGED <<getRobotStateVars, permVars, convVars, jointVars>>

\* state_transition with RESET left out of the rotation.
state_transition_skipping_reset(state) ==
    CASE state = "WIGGLE_DOWN" -> "WIGGLE_MIDDLE"
      [] state = "WIGGLE_MIDDLE" -> "WIGGLE_UP"
      [] OTHER -> "WIGGLE_DOWN"

state_transition(state) ==
    CASE state = "WIGGLE_DOWN" -> "WIGGLE_MIDDLE"
      [] state = "WIGGLE_MIDDLE" -> "WIGGLE_UP"
      [] state = "WIGGLE_UP" -> "RESET"
      [] OTHER -> "WIGGLE_DOWN"

\* A double that is the quotient of two ints, kept as the two: a zero
\* denominator stands for the NaN or infinity the division gives.
Quotient(num, den) == [num |-> num, den |-> den]
OneMinus(percentage) == Quotient(percentage.den - percentage.num, percentage.den)

\* The loop of lines 124-127 from its i-th round on: the command's data, or
\* nothing where an at() throws.
RECURSIVE populate_command(_, _, _, _)
populate_command(i, offsets, percentage, data) ==
    IF i > Len(joints_to_wiggle_) THEN Some(data)
    ELSE
      LET joint == joints_to_wiggle_[i]
      IN IF \/ joint < 0 \/ joint >= Len(data)
            \/ joint >= Len(nominal_joint_angles_) \/ i > Len(offsets)
         THEN None
         ELSE populate_command(
                  i + 1, offsets, percentage,
                  [data EXCEPT ![joint + 1] =
                      [nominal |-> nominal_joint_angles_[joint + 1],
                       offset |-> offsets[i], percentage |-> percentage]])

populate_command_from_state(state, percentage) ==
    CASE state = "WIGGLE_DOWN" ->
             populate_command(1, wiggle_down_offsets_, percentage, command_)
      [] state = "WIGGLE_MIDDLE" ->
             populate_command(1, wiggle_down_offsets_, OneMinus(percentage), command_)
      [] state = "WIGGLE_UP" ->
             populate_command(1, wiggle_up_offsets_, percentage, command_)
      [] OTHER ->
             populate_command(1, wiggle_up_offsets_, OneMinus(percentage), command_)

\* Line 156.
NeedsSwitch(count, points_per_motion) == count > points_per_motion

timer_callback ==
    /\ Spinning
    /\ IF ~initialized_
       THEN /\ wiggle_event' = WiggleEvent("timer_callback", None, None, FALSE)
            /\ UNCHANGED <<wiggle_state_, count_, command_>>
       ELSE LET switch == NeedsSwitch(count_, points_per_motion_)
                state == IF switch THEN state_transition(wiggle_state_)
                         ELSE wiggle_state_
                count == IF switch THEN 0 ELSE count_
                percentage == Quotient(count, points_per_motion_)
                data == populate_command_from_state(state, percentage)
            IN /\ wiggle_state_' = state
               /\ IF data = None
                  THEN /\ count_' = count
                       /\ command_' = command_
                       /\ wiggle_event' = WiggleEvent("timer_callback", None, None, TRUE)
                  ELSE /\ count_' = count + 1
                       /\ command_' = data[1]
                       /\ wiggle_event' =
                              WiggleEvent("timer_callback", None,
                                          Some([wiggle_state |-> state,
                                                percentage |-> percentage,
                                                data |-> data[1]]),
                                          FALSE)
    /\ UNCHANGED <<initialized_, points_per_motion_, nominal_joint_angles_,
                   joints_to_wiggle_, wiggle_up_offsets_, wiggle_down_offsets_>>
    /\ UNCHANGED <<getRobotStateVars, permVars, convVars, jointVars>>

WiggleNext ==
    \/ \E msg \in WiggleMsgs : joint_states_callback(msg)
    \/ timer_callback

WiggleSpec == WiggleInit /\ [][WiggleNext]_vars


\* The callback that ran last, and what a timer tick published.
LastCallback == wiggle_event[1].callback
Published == wiggle_event[1].published

\* The joint names the node knows.
KnownJointNames == {JointOrder[k] : k \in 1..Len(JointOrder)}

Rotation == <<"WIGGLE_DOWN", "WIGGLE_MIDDLE", "WIGGLE_UP", "RESET">>
RotationSuccessor(state) ==
    Rotation[((CHOOSE i \in 1..4 : Rotation[i] = state) % 4) + 1]

\* C19: wiggle_state_ starts at WIGGLE_DOWN and changes only inside a timer
\* tick, only when count_ exceeds points_per_motion_, only to the cyclic
\* successor of the current state, and count_ is reset to 0 at the change:
\* the tick computes its percentage from 0 and, having published, leaves
\* count_ at 1.
C19_CyclicRotation ==
    /\ wiggle_state_ = "WIGGLE_DOWN"
    /\ [][wiggle_state_' # wiggle_state_ =>
              /\ wiggle_event'[1].callback = "timer_callback"
              /\ count_ > points_per_motion_
              /\ wiggle_state_' = RotationSuccessor(wiggle_state_)
              /\ IF wiggle_event'[1].published # None
                 THEN /\ wiggle_event'[1].published[1].percentage.num = 0
                      /\ count_' = 1
                 ELSE count_' = 0]_vars

\* A tick has just switched WIGGLE_UP to RESET, the third change of a
\* rotation, and published the first point of the new motion.
C19_Witness ==
    /\ wiggle_state_ = "RESET"
    /\ wiggle_event # None
    /\ LastCallback = "timer_callback"
    /\ Published # None
    /\ Published[1].percentage.num = 0
    /\ count_ = 1
    /\ points_per_motion_ = 3

\* C20: in every timer tick that publishes a command, from the first tick
\* after construction on, the count_ and points_per_motion_ whose quotient
\* is passed to populate_command_from_state satisfy
\* 0 <= count_ <= points_per_motion_ and points_per_motion_ > 0.
C20_PercentageWithinUnit ==
    (wiggle_event # None /\ Published # None) =>
        /\ 0 <= Published[1].percentage.num
        /\ Published[1].percentage.num <= Published[1].percentage.den
        /\ Published[1].percentage.den > 0

====
